---- MODULE Spec2Model ----
(***************************************************************************)
(* The byte-transform pipeline (vfs.Transformer) and the log record        *)
(* (vfs.Segment) of the storage engine, as state machines.                 *)
(*                                                                         *)
(* Spec    : the Transformer, driven through its configuration operations  *)
(*           and Write / Read / ReadAt against one byte sink/source.       *)
(* SpecSeg : Segment construction and its accessors.                       *)
(***************************************************************************)
EXTENDS Integers, Sequences, FiniteSets, TLC

VARIABLES
    flags,        \* Transformer.flags
    Encryptor,    \* Transformer.Encryptor (embedded interface), Nil when unbound
    Compressor,   \* Transformer.Compressor (embedded interface), Nil when unbound
    secret,       \* Transformer.secret
    fdData,       \* the bytes held by the fd handed to Write / Read / ReadAt
    lastWrite,    \* the last successful Write: its payload and the length stored
    bound,        \* the arguments of the latest successful SetEncryptor / SetCompressor
    ret,          \* what the last operation returned, and the calls it made
    segIn,        \* the arguments the Segment constructors are called with
    clock,        \* the wall clock, in Unix seconds
    seg,          \* the Segment last returned by a constructor, NilSegment when none
    segRet        \* the constructor last called and the error it returned

iovars == <<fdData, lastWrite>>
cfgvars == <<flags, Encryptor, Compressor, secret, bound>>
segvars == <<segIn, clock, seg, segRet>>
vars == <<flags, Encryptor, Compressor, secret, fdData, lastWrite, bound, ret, segIn, clock, seg, segRet>>

----------------------------------------------------------------------------
(* Bounds of the model. *)

\* longest payload handed to Write
MaxLen == 2
\* the clock's first reading, and how many seconds it may advance
Epoch == 1000
MaxTicks == 2

(* Program constants. *)

EnabledEncryption == 1
EnabledCompression == 2
MinSecretLen == 16
ByteMod == 256

Nil == "nil"
PayloadBytes == {1, 2}

RECURSIVE SeqsUpTo(_, _)
SeqsUpTo(S, n) ==
    IF n = 0 THEN {<<>>}
    ELSE LET shorter == SeqsUpTo(S, n - 1)
         IN  shorter \cup {Append(s, b) : s \in {x \in shorter : Len(x) = n - 1}, b \in S}

Payloads == SeqsUpTo(PayloadBytes, MaxLen)

Zeros(n) == [i \in 1..n |-> 0]

\* the result of a capability call: (bytes, nil) or (nil, error)
Ok(d) == [ok |-> TRUE, data |-> d]
Fail == [ok |-> FALSE, data |-> <<>>]

----------------------------------------------------------------------------
(* Fixed-width integers.  A 64-bit value is four 16-bit words, least        *)
(* significant first, so that uint32, uint64 and int64 arithmetic wraps as   *)
(* the machine's does.                                                       *)

Word == 65536
HalfWord == 32768

\* the 64-bit value of a small natural
U64(n) == <<n % Word, (n \div Word) % Word, 0, 0>>

Zero64 == U64(0)
One64 == U64(1)

\* a + b + c as five words: the 64-bit sum and the carry out of it
AddWords(a, b, c) ==
    LET s1 == a[1] + b[1] + c
        s2 == a[2] + b[2] + s1 \div Word
        s3 == a[3] + b[3] + s2 \div Word
        s4 == a[4] + b[4] + s3 \div Word
    IN  <<s1 % Word, s2 % Word, s3 % Word, s4 % Word, s4 \div Word>>

\* a + b in 64 bits (wrapping)
Add64(a, b) == SubSeq(AddWords(a, b, 0), 1, 4)

\* whether a + b exceeds 64 bits
Carry64(a, b) == AddWords(a, b, 0)[5] = 1

Not64(a) == [i \in 1..4 |-> Word - 1 - a[i]]

\* a - b in 64 bits (wrapping)
Sub64(a, b) == SubSeq(AddWords(a, Not64(b), 1), 1, 4)

Neg64(a) == Sub64(Zero64, a)

\* unsigned a < b
Lt64(a, b) ==
    \E i \in 1..4 : a[i] < b[i] /\ \A j \in (i + 1)..4 : a[j] = b[j]

\* the sign bit of a as an int64
IsNeg64(a) == a[4] >= HalfWord

\* signed a < b
SLt64(a, b) ==
    IF IsNeg64(a) # IsNeg64(b) THEN IsNeg64(a) ELSE Lt64(a, b)

\* uint32(a): the low 32 bits
U32(a) == <<a[1], a[2], 0, 0>>

\* the largest factor MulSmall and DivSmall take: a word times it stays in range
SmallMax == 32767

\* a * k in 64 bits (wrapping), for 0 <= k <= SmallMax
MulSmall(a, k) ==
    LET p1 == a[1] * k
        p2 == a[2] * k + p1 \div Word
        p3 == a[3] * k + p2 \div Word
        p4 == a[4] * k + p3 \div Word
    IN  <<p1 % Word, p2 % Word, p3 % Word, p4 % Word>>

\* unsigned a / k, for 0 < k <= SmallMax
DivSmall(a, k) ==
    LET t4 == a[4]
        t3 == (t4 % k) * Word + a[3]
        t2 == (t3 % k) * Word + a[2]
        t1 == (t2 % k) * Word + a[1]
    IN  <<t1 \div k, t2 \div k, t3 \div k, t4 \div k>>

\* 10^9 = GigaA * GigaB, both within SmallMax
GigaA == 31250
GigaB == 32000

\* a * 10^9 in 64 bits (wrapping)
MulGiga(a) == MulSmall(MulSmall(a, GigaA), GigaB)

\* unsigned a / 10^9 and a % 10^9 (the remainder as a small integer)
UDivModGiga(a) ==
    LET q == DivSmall(DivSmall(a, GigaA), GigaB)
        r == Sub64(a, MulGiga(q))
    IN  [q |-> q, r |-> r[1] + r[2] * Word]

\* int64 a / 10^9 and a % 10^9, truncated toward zero as Go's / and % are;
\* the remainder is a small integer carrying the sign of a
SDivModGiga(a) ==
    IF IsNeg64(a)
    THEN LET m == UDivModGiga(Neg64(a)) IN [q |-> Neg64(m.q), r |-> 0 - m.r]
    ELSE UDivModGiga(a)

----------------------------------------------------------------------------
(* The capabilities the Transformer is given.  Both are interfaces; the     *)
(* model binds concrete ones whose Decompress inverts Compress and whose    *)
(* Decode inverts Encode under the same secret.                             *)

Compressors == {"rle"}
Encryptors == {"shift"}

\* length of the run of equal bytes d starts with (a run is at most 255 long)
RunLen(d) ==
    CHOOSE k \in 1..Len(d) :
        /\ k <= ByteMod - 1
        /\ \A i \in 1..k : d[i] = d[1]
        /\ (k = Len(d) \/ k = ByteMod - 1 \/ d[k + 1] # d[1])

RECURSIVE RleCompress(_)
RleCompress(d) ==
    IF d = <<>> THEN <<>>
    ELSE LET k == RunLen(d)
         IN  <<k, d[1]>> \o RleCompress(SubSeq(d, k + 1, Len(d)))

RECURSIVE RleDecompress(_)
RleDecompress(d) ==
    IF d = <<>> THEN Ok(<<>>)
    ELSE IF Len(d) = 1 \/ d[1] = 0 THEN Fail
    ELSE LET rest == RleDecompress(SubSeq(d, 3, Len(d)))
         IN  IF rest.ok THEN Ok([i \in 1..d[1] |-> d[2]] \o rest.data) ELSE Fail

\* Compressor.Compress
Compress(c, d) == Ok(RleCompress(d))

\* Compressor.Decompress
Decompress(c, d) == RleDecompress(d)

\* the key byte an Encryptor derives from the secret
Key(s) == IF s = <<>> THEN 0 ELSE (s[1] + Len(s)) % ByteMod

ShiftTag == 170

\* Encryptor.Encode: a tag byte, then every byte shifted by the key
Encode(e, s, d) ==
    Ok(<<ShiftTag>> \o [i \in 1..Len(d) |-> (d[i] + Key(s)) % ByteMod])

\* Encryptor.Decode: fails on bytes that do not start with the tag
Decode(e, s, d) ==
    IF d = <<>> \/ d[1] # ShiftTag THEN Fail
    ELSE Ok([i \in 1..Len(d) - 1 |-> (d[i + 1] + ByteMod - Key(s)) % ByteMod])

\* the secrets callers hand to SetEncryptor
SecretOf(n, b) == [i \in 1..n |-> b]
Secrets == {SecretOf(MinSecretLen - 1, 3), SecretOf(MinSecretLen, 1), SecretOf(MinSecretLen + 1, 2)}

----------------------------------------------------------------------------
(* Transformer: construction and flag operations. *)

BitSet(f, bit) == (f \div bit) % 2 = 1
BitOr(f, bit) == IF BitSet(f, bit) THEN f ELSE f + bit
BitAndNot(f, bit) == IF BitSet(f, bit) THEN f - bit ELSE f

IsEncryptionEnabled == BitSet(flags, EnabledEncryption)
IsCompressionEnabled == BitSet(flags, EnabledCompression)

\* the Transformer's configuration as one value
Config == [flags |-> flags, Encryptor |-> Encryptor, Compressor |-> Compressor, secret |-> secret]

NoWrite == [ok |-> FALSE, payload |-> <<>>, n |-> 0]

\* an operation's record: its name, the error it returned (Nil for none), the
\* count and bytes it returned, the capability and sink calls it made in order,
\* its arguments (req/off: bufsize and offset, cap/key: capability and secret,
\* buf: the payload written or the buffer read), the bytes the source delivered
\* (got) and the flags as they were when it was called (was)
Ret(op, err) ==
    [op |-> op, err |-> err, n |-> 0, data |-> <<>>, calls |-> <<>>,
     req |-> 0, got |-> 0, off |-> 0, buf |-> <<>>, cap |-> Nil, key |-> <<>>,
     was |-> flags]

\* one call made by an operation: the method, the capability it was made on,
\* the secret passed (Encode / Decode) and the bytes passed
Call(fn, cap, key, arg) == [fn |-> fn, cap |-> cap, key |-> key, arg |-> arg]

\* a nil *Segment: the value seg holds when no Segment was returned
NilSegment ==
    [Tombstone |-> -1, Type |-> -1, CreatedAt |-> Zero64, ExpiredAt |-> Zero64,
     KeySize |-> Zero64, ValueSize |-> Zero64, Key |-> Zero64, Value |-> <<>>]

\* the constructors' arguments when none are under study
NoSegIn == [key |-> Zero64, data |-> [variant |-> "*types.Set", bson |-> <<>>], ttl |-> Zero64]

\* a Segment operation's record: its name, the error it returned (Nil for
\* none), the calls it made in order, and for the accessors the clock reading
\* taken (now), the seconds TTL returned (an int64) and what a projection
\* returned (present is FALSE for a nil pointer)
SegRet(op, err) ==
    [op |-> op, err |-> err, calls |-> <<>>, now |-> 0, ttl |-> Zero64,
     proj |-> [present |-> FALSE, value |-> [variant |-> Nil, bson |-> <<>>]]]

NewTransformer ==
    /\ flags = 0
    /\ Encryptor = Nil
    /\ Compressor = Nil
    /\ secret = <<>>

Init ==
    /\ NewTransformer
    /\ fdData = <<>>
    /\ lastWrite = NoWrite
    /\ bound = [enc |-> Nil, key |-> <<>>, comp |-> Nil]
    /\ ret = [Ret("NewTransformer", Nil) EXCEPT !.was = 0]
    /\ segIn = NoSegIn
    /\ clock = Epoch
    /\ seg = NilSegment
    /\ segRet = SegRet(Nil, Nil)

\* a faulty variant: clearing one flag clears them all
ClearAllFlags(f) == 0

FlagsAfterEnableEncryption(f) == BitOr(f, EnabledEncryption)
FlagsAfterEnableCompression(f) == BitOr(f, EnabledCompression)
FlagsAfterDisableEncryption(f) == BitAndNot(f, EnabledEncryption)
FlagsAfterDisableCompression(f) == BitAndNot(f, EnabledCompression)
FlagsAfterDisableAll(f) == 0

EnableEncryption ==
    /\ flags' = FlagsAfterEnableEncryption(flags)
    /\ ret' = Ret("EnableEncryption", Nil)
    /\ UNCHANGED <<Encryptor, Compressor, secret, bound, iovars, segvars>>

EnableCompression ==
    /\ flags' = FlagsAfterEnableCompression(flags)
    /\ ret' = Ret("EnableCompression", Nil)
    /\ UNCHANGED <<Encryptor, Compressor, secret, bound, iovars, segvars>>

DisableEncryption ==
    /\ flags' = FlagsAfterDisableEncryption(flags)
    /\ ret' = Ret("DisableEncryption", Nil)
    /\ UNCHANGED <<Encryptor, Compressor, secret, bound, iovars, segvars>>

DisableCompression ==
    /\ flags' = FlagsAfterDisableCompression(flags)
    /\ ret' = Ret("DisableCompression", Nil)
    /\ UNCHANGED <<Encryptor, Compressor, secret, bound, iovars, segvars>>

\* a faulty variant: DisableAll also drops the bound capabilities and the secret
DisableAllUnbinds ==
    /\ flags' = 0
    /\ Encryptor' = Nil
    /\ Compressor' = Nil
    /\ secret' = <<>>
    /\ ret' = Ret("DisableAll", Nil)
    /\ UNCHANGED <<bound, iovars, segvars>>

DisableAll ==
    /\ flags' = FlagsAfterDisableAll(flags)
    /\ ret' = Ret("DisableAll", Nil)
    /\ UNCHANGED <<Encryptor, Compressor, secret, bound, iovars, segvars>>

\* a faulty variant: SetEncryptor stores the secret and the capability before it checks
\* the secret's length
SetEncryptorBindsBeforeCheck(encryptor, s) ==
    /\ secret' = s
    /\ Encryptor' = encryptor
    /\ IF Len(s) < MinSecretLen
       THEN /\ ret' = [Ret("SetEncryptor", "secret") EXCEPT !.cap = encryptor, !.key = s]
            /\ UNCHANGED <<flags, bound>>
       ELSE /\ flags' = BitOr(flags, EnabledEncryption)
            /\ bound' = [bound EXCEPT !.enc = encryptor, !.key = s]
            /\ ret' = [Ret("SetEncryptor", Nil) EXCEPT !.cap = encryptor, !.key = s]
    /\ UNCHANGED <<Compressor, iovars, segvars>>

\* a faulty variant: SetEncryptor keeps a secret that is already stored
SetEncryptorKeepsSecret(encryptor, s) ==
    IF Len(s) < MinSecretLen
    THEN /\ ret' = [Ret("SetEncryptor", "secret") EXCEPT !.cap = encryptor, !.key = s]
         /\ UNCHANGED <<cfgvars, iovars, segvars>>
    ELSE /\ secret' = IF secret = <<>> THEN s ELSE secret
         /\ Encryptor' = encryptor
         /\ flags' = BitOr(flags, EnabledEncryption)
         /\ bound' = [bound EXCEPT !.enc = encryptor, !.key = s]
         /\ ret' = [Ret("SetEncryptor", Nil) EXCEPT !.cap = encryptor, !.key = s]
         /\ UNCHANGED <<Compressor, iovars, segvars>>

\* a faulty variant: SetEncryptor does not check the secret's length
SetEncryptorUnchecked(encryptor, s) ==
    /\ secret' = s
    /\ Encryptor' = encryptor
    /\ flags' = BitOr(flags, EnabledEncryption)
    /\ bound' = [bound EXCEPT !.enc = encryptor, !.key = s]
    /\ ret' = [Ret("SetEncryptor", Nil) EXCEPT !.cap = encryptor, !.key = s]
    /\ UNCHANGED <<Compressor, iovars, segvars>>

SetEncryptor(encryptor, s) ==
    IF Len(s) < MinSecretLen
    THEN /\ ret' = [Ret("SetEncryptor", "secret") EXCEPT !.cap = encryptor, !.key = s]
         /\ UNCHANGED <<cfgvars, iovars, segvars>>
    ELSE /\ secret' = s
         /\ Encryptor' = encryptor
         /\ flags' = FlagsAfterEnableEncryption(flags)
         /\ bound' = [bound EXCEPT !.enc = encryptor, !.key = s]
         /\ ret' = [Ret("SetEncryptor", Nil) EXCEPT !.cap = encryptor, !.key = s]
         /\ UNCHANGED <<Compressor, iovars, segvars>>

SetCompressor(compressor) ==
    /\ Compressor' = compressor
    /\ flags' = FlagsAfterEnableCompression(flags)
    /\ bound' = [bound EXCEPT !.comp = compressor]
    /\ ret' = [Ret("SetCompressor", Nil) EXCEPT !.cap = compressor]
    /\ UNCHANGED <<Encryptor, secret, iovars, segvars>>

----------------------------------------------------------------------------
(* Transformer: the write path and the two read paths. *)

\* a faulty variant: the encryption stage is gated by its flag alone
EncryptionFlagOnly == IsEncryptionEnabled

CompressionActive == IsCompressionEnabled /\ Compressor # Nil
EncryptionActive == IsEncryptionEnabled /\ Encryptor # Nil

\* a faulty variant: Write encrypts first and compresses the ciphertext
WriteStagesEncryptFirst(data, fault) ==
    LET e == IF EncryptionActive
             THEN IF fault = "encrypt" THEN Fail ELSE Encode(Encryptor, secret, data)
             ELSE Ok(data)
        eCalls == IF EncryptionActive
                  THEN <<Call("Encode", Encryptor, secret, data)>> ELSE <<>>
        c == IF CompressionActive
             THEN IF fault = "compress" THEN Fail ELSE Compress(Compressor, e.data)
             ELSE Ok(e.data)
        cCalls == IF CompressionActive
                  THEN <<Call("Compress", Compressor, <<>>, e.data)>> ELSE <<>>
    IN  IF ~e.ok THEN [err |-> "encrypt", data |-> <<>>, calls |-> eCalls]
        ELSE IF ~c.ok THEN [err |-> "compress", data |-> <<>>, calls |-> eCalls \o cCalls]
        ELSE [err |-> Nil, data |-> c.data, calls |-> eCalls \o cCalls]

\* a faulty variant: Read decompresses first and decrypts the result
ReadStagesDecompressFirst(buf) ==
    LET c == IF CompressionActive THEN Decompress(Compressor, buf) ELSE Ok(buf)
        cCalls == IF CompressionActive
                  THEN <<Call("Decompress", Compressor, <<>>, buf)>> ELSE <<>>
        e == IF EncryptionActive THEN Decode(Encryptor, secret, c.data) ELSE Ok(c.data)
        eCalls == IF EncryptionActive
                  THEN <<Call("Decode", Encryptor, secret, c.data)>> ELSE <<>>
    IN  IF ~c.ok THEN [err |-> "decompress", data |-> <<>>, calls |-> cCalls]
        ELSE IF ~e.ok THEN [err |-> "decrypt", data |-> <<>>, calls |-> cCalls \o eCalls]
        ELSE [err |-> Nil, data |-> e.data, calls |-> cCalls \o eCalls]

\* what may go wrong in a Write: a capability or the sink returning an error
Faults == {"none", "compress", "encrypt", "write"}

\* Write's transform stages on data: the bytes for the sink, the stage that
\* failed (Nil for none) and the capability calls made, in order; fault names
\* the call that returns an error if it is made
WriteStages(data, fault) ==
    LET c == IF CompressionActive
             THEN IF fault = "compress" THEN Fail ELSE Compress(Compressor, data)
             ELSE Ok(data)
        cCalls == IF CompressionActive
                  THEN <<Call("Compress", Compressor, <<>>, data)>> ELSE <<>>
        e == IF EncryptionActive
             THEN IF fault = "encrypt" THEN Fail ELSE Encode(Encryptor, secret, c.data)
             ELSE Ok(c.data)
        eCalls == IF EncryptionActive
                  THEN <<Call("Encode", Encryptor, secret, c.data)>> ELSE <<>>
    IN  IF ~c.ok THEN [err |-> "compress", data |-> <<>>, calls |-> cCalls]
        ELSE IF ~e.ok THEN [err |-> "encrypt", data |-> <<>>, calls |-> cCalls \o eCalls]
        ELSE [err |-> Nil, data |-> e.data, calls |-> cCalls \o eCalls]

\* Read's transform stages on the buffer it filled: decrypt, then decompress
ReadStages(buf) ==
    LET e == IF EncryptionActive THEN Decode(Encryptor, secret, buf) ELSE Ok(buf)
        eCalls == IF EncryptionActive
                  THEN <<Call("Decode", Encryptor, secret, buf)>> ELSE <<>>
        c == IF CompressionActive THEN Decompress(Compressor, e.data) ELSE Ok(e.data)
        cCalls == IF CompressionActive
                  THEN <<Call("Decompress", Compressor, <<>>, e.data)>> ELSE <<>>
    IN  IF ~e.ok THEN [err |-> "decrypt", data |-> <<>>, calls |-> eCalls]
        ELSE IF ~c.ok THEN [err |-> "decompress", data |-> <<>>, calls |-> eCalls \o cCalls]
        ELSE [err |-> Nil, data |-> c.data, calls |-> eCalls \o cCalls]

\* ReadAt's transform stages on the buffer it filled: decompress, then decrypt
ReadAtStages(buf) ==
    LET c == IF CompressionActive THEN Decompress(Compressor, buf) ELSE Ok(buf)
        cCalls == IF CompressionActive
                  THEN <<Call("Decompress", Compressor, <<>>, buf)>> ELSE <<>>
        e == IF EncryptionActive THEN Decode(Encryptor, secret, c.data) ELSE Ok(c.data)
        eCalls == IF EncryptionActive
                  THEN <<Call("Decode", Encryptor, secret, c.data)>> ELSE <<>>
    IN  IF ~c.ok THEN [err |-> "decompress", data |-> <<>>, calls |-> cCalls]
        ELSE IF ~e.ok THEN [err |-> "decrypt", data |-> <<>>, calls |-> cCalls \o eCalls]
        ELSE [err |-> Nil, data |-> e.data, calls |-> cCalls \o eCalls]

\* a faulty variant: Write hands the payload to the sink although a stage failed
WriteDespiteStageError(data, fault) ==
    LET st == WriteStages(data, fault)
        out == IF st.err # Nil THEN data ELSE st.data
        sinkCall == <<Call("fd.Write", Nil, <<>>, out)>>
    IN  /\ fdData' = IF fault # "write" THEN out ELSE <<>>
        /\ IF st.err # Nil \/ fault = "write"
           THEN /\ ret' = [Ret("Write", IF st.err # Nil THEN st.err ELSE "write") EXCEPT
                              !.calls = st.calls \o sinkCall, !.buf = data]
                /\ lastWrite' = NoWrite
           ELSE /\ ret' = [Ret("Write", Nil) EXCEPT
                              !.n = Len(out), !.calls = st.calls \o sinkCall, !.buf = data]
                /\ lastWrite' = [ok |-> TRUE, payload |-> data, n |-> Len(out)]
        /\ UNCHANGED <<cfgvars, segvars>>

\* Write(fd, data) on a newly opened fd
Write(data, fault) ==
    LET st == WriteStages(data, fault)
        sinkOk == fault # "write"
        sinkCall == <<Call("fd.Write", Nil, <<>>, st.data)>>
    IN  IF st.err # Nil
        THEN /\ ret' = [Ret("Write", st.err) EXCEPT !.calls = st.calls, !.buf = data]
             /\ fdData' = <<>>
             /\ lastWrite' = NoWrite
             /\ UNCHANGED <<cfgvars, segvars>>
        ELSE /\ fdData' = IF sinkOk THEN st.data ELSE <<>>
             /\ IF ~sinkOk
                THEN /\ ret' = [Ret("Write", "write") EXCEPT
                                   !.calls = st.calls \o sinkCall, !.buf = data]
                     /\ lastWrite' = NoWrite
                ELSE /\ ret' = [Ret("Write", Nil) EXCEPT
                                   !.n = Len(st.data), !.calls = st.calls \o sinkCall, !.buf = data]
                     /\ lastWrite' = [ok |-> TRUE, payload |-> data, n |-> Len(st.data)]
             /\ UNCHANGED <<cfgvars, segvars>>

\* Read(fd, bufsize): got is the number of bytes fd.Read delivers into the buffer
Read(bufsize, got) ==
    LET avail == Len(fdData)
        buf == SubSeq(fdData, 1, got) \o Zeros(bufsize - got)
        st == ReadStages(buf)
    IN  IF bufsize > 0 /\ avail = 0
        THEN \* io.EOF
             /\ got = 0
             /\ ret' = [Ret("Read", "read") EXCEPT !.req = bufsize, !.off = 0]
             /\ UNCHANGED <<cfgvars, iovars, segvars>>
        ELSE /\ got >= 0
             /\ got <= bufsize
             /\ got <= avail
             /\ bufsize > 0 => got > 0
             /\ ret' = [Ret("Read", st.err) EXCEPT
                           !.req = bufsize, !.got = got, !.off = 0, !.buf = buf,
                           !.data = st.data, !.calls = st.calls]
             /\ UNCHANGED <<cfgvars, iovars, segvars>>

\* ReadAt(fd, offset, bufsize): os.File.ReadAt fills the whole buffer or fails
ReadAt(offset, bufsize) ==
    LET buf == SubSeq(fdData, offset + 1, offset + bufsize)
        st == ReadAtStages(buf)
    IN  IF bufsize > 0 /\ offset + bufsize > Len(fdData)
        THEN /\ ret' = [Ret("ReadAt", "read") EXCEPT !.req = bufsize, !.off = offset]
             /\ UNCHANGED <<cfgvars, iovars, segvars>>
        ELSE /\ ret' = [Ret("ReadAt", st.err) EXCEPT
                           !.req = bufsize, !.got = bufsize, !.off = offset, !.buf = buf,
                           !.data = st.data, !.calls = st.calls]
             /\ UNCHANGED <<cfgvars, iovars, segvars>>

\* the buffer sizes callers ask for: the stored length, one off it, and none
BufSizes == {0, Len(fdData), Len(fdData) + 1}

Next ==
    \/ EnableEncryption
    \/ EnableCompression
    \/ DisableEncryption
    \/ DisableCompression
    \/ DisableAll
    \/ \E e \in Encryptors \cup {Nil}, s \in Secrets : SetEncryptor(e, s)
    \/ \E c \in Compressors \cup {Nil} : SetCompressor(c)
    \/ \E d \in Payloads, fault \in Faults : Write(d, fault)
    \/ \E bufsize \in BufSizes : \E got \in {0, bufsize - 1, bufsize} : Read(bufsize, got)
    \/ \E offset \in {0, 1}, bufsize \in BufSizes : ReadAt(offset, bufsize)

Spec == Init /\ [][Next]_vars

----------------------------------------------------------------------------
(* Segment: the log record, its constructors and accessors. *)

Set == 0
ZSet == 1
List == 2
Text == 3
Tables == 4
Binary == 5
Number == 6
Unknown == 7

\* the header's fixed width and the checksum trailer's, in bytes
HeaderSize == 26
CrcSize == 4

\* the concrete types a Serializable value may have; "other" is any type that
\* is none of the seven the engine knows
Variants ==
    {"*types.Set", "*types.ZSet", "*types.List", "*types.Text", "*types.Tables",
     "*types.Binary", "*types.Number", "other"}

\* a faulty variant: toKind reports no error for a type it does not know
toKindWithoutError(data) ==
    CASE data.variant = "*types.Set" -> [kind |-> Set, err |-> Nil]
      [] data.variant = "*types.ZSet" -> [kind |-> ZSet, err |-> Nil]
      [] data.variant = "*types.List" -> [kind |-> List, err |-> Nil]
      [] data.variant = "*types.Text" -> [kind |-> Text, err |-> Nil]
      [] data.variant = "*types.Tables" -> [kind |-> Tables, err |-> Nil]
      [] data.variant = "*types.Binary" -> [kind |-> Binary, err |-> Nil]
      [] data.variant = "*types.Number" -> [kind |-> Number, err |-> Nil]
      [] OTHER -> [kind |-> Unknown, err |-> Nil]

\* toKind: the Kind of a value and whether it is supported
toKind(data) ==
    CASE data.variant = "*types.Set" -> [kind |-> Set, err |-> Nil]
      [] data.variant = "*types.ZSet" -> [kind |-> ZSet, err |-> Nil]
      [] data.variant = "*types.List" -> [kind |-> List, err |-> Nil]
      [] data.variant = "*types.Text" -> [kind |-> Text, err |-> Nil]
      [] data.variant = "*types.Tables" -> [kind |-> Tables, err |-> Nil]
      [] data.variant = "*types.Binary" -> [kind |-> Binary, err |-> Nil]
      [] data.variant = "*types.Number" -> [kind |-> Number, err |-> Nil]
      [] OTHER -> [kind |-> Unknown, err |-> "unknown data type"]

\* Serializable.ToBSON: the value's canonical bytes
ToBSON(data) == data.bson

\* transformer.Encode: the Transformer's write-side pipeline on the canonical
\* bytes (compress if active, then encrypt if active)
TransformerEncode(b, fault) ==
    LET st == WriteStages(b, fault)
    IN  [err |-> st.err, data |-> st.data]

\* time.Now().Add(time.Second * time.Duration(ttl)).Unix() as a uint64, for a
\* clock reading of now seconds and ns nanoseconds: the duration is the int64
\* product (wrapping), split by Time.Add into whole seconds and nanoseconds
ExpiryOf(now, ns, ttl) ==
    LET d == SDivModGiga(MulGiga(ttl))
        nsec == ns + d.r
        carry == IF nsec >= 1000000000 THEN One64
                 ELSE IF nsec < 0 THEN Neg64(One64) ELSE Zero64
    IN  Add64(Add64(U64(now), d.q), carry)

\* NewSegment(key, data, ttl): adv is the time that passes between its two
\* clock readings, ns the nanoseconds of the second reading
NewSegment(adv, ns, fault) ==
    LET k == toKind(segIn.data)
        timestamp == U64(clock)
        expiredAt == IF segIn.ttl # Zero64
                     THEN ExpiryOf(clock + adv, ns, segIn.ttl) ELSE Zero64
        enc == TransformerEncode(ToBSON(segIn.data), fault)
    IN  IF k.err # Nil
        THEN /\ seg' = NilSegment
             /\ segRet' = SegRet("NewSegment", "unsupported data type")
             /\ UNCHANGED <<cfgvars, iovars, ret, segIn, clock>>
        ELSE /\ segIn.ttl = Zero64 => adv = 0
             /\ clock + adv <= Epoch + MaxTicks
             /\ clock' = clock + adv
             /\ IF enc.err # Nil
                THEN /\ seg' = NilSegment
                     /\ segRet' = [SegRet("NewSegment", "transformer encode") EXCEPT
                                       !.calls = <<"ToBSON", "transformer.Encode">>]
                ELSE /\ seg' = [Tombstone |-> 0,
                                Type |-> k.kind,
                                CreatedAt |-> timestamp,
                                ExpiredAt |-> expiredAt,
                                KeySize |-> U32(segIn.key),
                                ValueSize |-> U32(U64(Len(enc.data))),
                                Key |-> segIn.key,
                                Value |-> enc.data]
                     /\ segRet' = [SegRet("NewSegment", Nil) EXCEPT
                                       !.now = clock,
                                       !.calls = <<"ToBSON", "transformer.Encode">>]
             /\ UNCHANGED <<cfgvars, iovars, ret, segIn>>

\* NewTombstoneSegment(key)
NewTombstoneSegment ==
    /\ seg' = [Tombstone |-> 1,
               Type |-> 0,
               CreatedAt |-> Zero64,
               ExpiredAt |-> Zero64,
               KeySize |-> U32(segIn.key),
               ValueSize |-> Zero64,
               Key |-> segIn.key,
               Value |-> <<>>]
    /\ segRet' = SegRet("NewTombstoneSegment", Nil)
    /\ UNCHANGED <<cfgvars, iovars, ret, segIn, clock>>

\* Segment.IsTombstone
IsTombstone(s) == s.Tombstone = 1

\* Segment.Size: uint32 arithmetic
Size(s) == U32(Add64(Add64(Add64(U64(HeaderSize), s.KeySize), s.ValueSize), U64(CrcSize)))

\* what a projection returns: a nil pointer, or a pointer to a value
Absent == [present |-> FALSE, value |-> [variant |-> Nil, bson |-> <<>>]]
Present(v) == [present |-> TRUE, value |-> v]

\* the zero value of a type: nothing was deserialized into it (its canonical
\* bytes are taken to be empty)
ZeroValue(variant) == [variant |-> variant, bson |-> <<>>]

\* Segment.ToSet: nil on another Type, else a pointer to a new, empty Set
ToSet(s) == IF s.Type # Set THEN Absent ELSE Present(ZeroValue("*types.Set"))

\* Segment.ToZSet .. Segment.ToNumber: nil
ToZSet(s) == Absent
ToText(s) == Absent
ToList(s) == Absent
ToTables(s) == Absent
ToBinary(s) == Absent
ToNumber(s) == Absent

Projections == {"ToSet", "ToZSet", "ToText", "ToList", "ToTables", "ToBinary", "ToNumber"}

Project(p, s) ==
    CASE p = "ToSet" -> ToSet(s)
      [] p = "ToZSet" -> ToZSet(s)
      [] p = "ToText" -> ToText(s)
      [] p = "ToList" -> ToList(s)
      [] p = "ToTables" -> ToTables(s)
      [] p = "ToBinary" -> ToBinary(s)
      [] p = "ToNumber" -> ToNumber(s)

\* a call of projection p on the Segment last constructed
CallProjection(p) ==
    /\ seg # NilSegment
    /\ segRet' = [SegRet(p, Nil) EXCEPT !.proj = Project(p, seg)]
    /\ UNCHANGED <<cfgvars, iovars, ret, segIn, clock, seg>>

\* Segment.TTL at a clock reading of now seconds: the int64 it returns
TTL(s, now) ==
    IF s.ExpiredAt # Zero64 /\ Lt64(U64(now), s.ExpiredAt)
    THEN Sub64(s.ExpiredAt, U64(now))
    ELSE Neg64(One64)

\* a call of TTL on the Segment last constructed
CallTTL ==
    /\ seg # NilSegment
    /\ segRet' = [SegRet("TTL", Nil) EXCEPT !.now = clock, !.ttl = TTL(seg, clock)]
    /\ UNCHANGED <<cfgvars, iovars, ret, segIn, clock, seg>>

\* a second passes
Tick ==
    /\ clock < Epoch + MaxTicks
    /\ clock' = clock + 1
    /\ UNCHANGED <<cfgvars, iovars, ret, segIn, seg, segRet>>

\* key lengths, in bytes: short keys and keys around the 32-bit limit
Pow32 == <<0, 0, 1, 0>>
KeyLens ==
    {Zero64, U64(6), Sub64(Pow32, U64(31)), Sub64(Pow32, U64(30)), Sub64(Pow32, One64),
     Pow32, Add64(Pow32, U64(6))}

\* time-to-live arguments, in seconds
TTLs == {Zero64, One64, U64(10), Add64(MulGiga(U64(9)), U64(223372037))}

SegValues == [variant : Variants, bson : {<<>>, <<1, 1>>}]

\* the Transformer configurations Segments are built under
InitSeg ==
    /\ flags \in {0, EnabledEncryption + EnabledCompression}
    /\ \/ Encryptor = Nil /\ Compressor = Nil /\ secret = <<>>
       \/ Encryptor = "shift" /\ Compressor = "rle" /\ secret = SecretOf(MinSecretLen, 1)
    /\ bound = [enc |-> Encryptor, key |-> secret, comp |-> Compressor]
    /\ fdData = <<>>
    /\ lastWrite = NoWrite
    /\ ret = [Ret("NewTransformer", Nil) EXCEPT !.was = 0]
    /\ segIn \in [key : KeyLens, data : SegValues, ttl : TTLs]
    /\ clock = Epoch
    /\ seg = NilSegment
    /\ segRet = SegRet(Nil, Nil)

NextSeg ==
    \/ \E adv \in {0, 1}, ns \in {0, 999999999}, fault \in Faults \ {"write"} :
          NewSegment(adv, ns, fault)
    \/ NewTombstoneSegment
    \/ CallTTL
    \/ Tick

SpecSeg == InitSeg /\ [][NextSeg]_vars

\* the constructors and the typed projections (which read no clock)
NextProj ==
    \/ \E ns \in {0, 999999999}, fault \in Faults \ {"write"} : NewSegment(0, ns, fault)
    \/ NewTombstoneSegment
    \/ \E p \in Projections : CallProjection(p)

SpecProj == InitSeg /\ [][NextProj]_vars

----------------------------------------------------------------------------
(* Properties of the Transformer, checked under Spec. *)

\* the fd holds exactly the bytes a successful Write of lastWrite.payload
\* hands to the sink under the present configuration: so it is right after
\* that Write, and for as long as the configuration is what it was then
HoldsLastWrite ==
    /\ lastWrite.ok
    /\ WriteStages(lastWrite.payload, "none").err = Nil
    /\ WriteStages(lastWrite.payload, "none").data = fdData

\* the last operation was a stream Read of the written length that the source
\* served in full, of bytes Write stored under the present configuration
StreamReadOfWrite ==
    /\ ret.op = "Read"
    /\ HoldsLastWrite
    /\ ret.req = lastWrite.n
    /\ ret.got = ret.req

\* C1: round trip through the stream path.  In each of the four
\* configurations, Write(fd, payload) followed by a Read(fd, n) of the written
\* length, served in full under the unchanged configuration, returns exactly
\* the payload and no error.
C1_StreamRoundTrip ==
    StreamReadOfWrite => ret.err = Nil /\ ret.data = lastWrite.payload

\* C1 witness: a full stream Read of a two-byte payload written with both
\* compression and encryption active.
C1_Witness ==
    /\ StreamReadOfWrite
    /\ CompressionActive
    /\ EncryptionActive
    /\ lastWrite.payload = <<1, 2>>
    /\ ret.data = <<1, 2>>

\* the last operation was a ReadAt at offset 0 of the written length, of bytes
\* Write stored under the present configuration
OffsetReadOfWrite ==
    /\ ret.op = "ReadAt"
    /\ HoldsLastWrite
    /\ ret.off = 0
    /\ ret.req = lastWrite.n

\* C2: the two read paths apply the identical reverse-order transform.  On
\* the bytes it read, ReadAt returns what Read returns on the same bytes under
\* the same configuration, and ReadAt of the bytes Write stored recovers the
\* payload.
C2_ReadAtAsRead ==
    /\ (ret.op = "ReadAt" /\ ret.err # "read")
          => /\ ret.err = ReadStages(ret.buf).err
             /\ ret.data = ReadStages(ret.buf).data
    /\ OffsetReadOfWrite => ret.err = Nil /\ ret.data = lastWrite.payload

\* the calls a Write of data makes when nothing fails, in order
WriteCallsOf(data) ==
    LET c == IF CompressionActive THEN Compress(Compressor, data).data ELSE data
        e == IF EncryptionActive THEN Encode(Encryptor, secret, c).data ELSE c
    IN  (IF CompressionActive THEN <<Call("Compress", Compressor, <<>>, data)>> ELSE <<>>)
        \o (IF EncryptionActive THEN <<Call("Encode", Encryptor, secret, c)>> ELSE <<>>)
        \o <<Call("fd.Write", Nil, <<>>, e)>>

IsPrefix(a, b) == Len(a) <= Len(b) /\ SubSeq(b, 1, Len(a)) = a

\* C3: Write applies its stages in the order compress, encrypt, sink write.
\* With both stages active the compressor receives the payload, the encryptor
\* receives the compressor's output, and the sink receives
\* Encode(secret, Compress(data)); a Write that fails stops within that order.
C3_WriteOrder ==
    ret.op = "Write"
      => /\ IsPrefix(ret.calls, WriteCallsOf(ret.buf))
         /\ ret.err = Nil => ret.calls = WriteCallsOf(ret.buf)
         /\ (ret.err = Nil /\ CompressionActive /\ EncryptionActive)
              => /\ Len(ret.calls) = 3
                 /\ ret.calls[1] = Call("Compress", Compressor, <<>>, ret.buf)
                 /\ ret.calls[2].fn = "Encode"
                 /\ ret.calls[2].arg = Compress(Compressor, ret.buf).data
                 /\ ret.calls[3].fn = "fd.Write"
                 /\ ret.calls[3].arg =
                      Encode(Encryptor, secret, Compress(Compressor, ret.buf).data).data
                 /\ fdData = ret.calls[3].arg

\* C3 witness: a successful Write of a two-byte payload through both stages.
C3_Witness ==
    /\ ret.op = "Write"
    /\ ret.err = Nil
    /\ CompressionActive
    /\ EncryptionActive
    /\ ret.buf = <<1, 2>>
    /\ Len(ret.calls) = 3

\* the last operation was SetEncryptor with a secret shorter than 16 bytes
ShortSetEncryptor(r) == r.op = "SetEncryptor" /\ Len(r.key) < MinSecretLen

\* C4 as stated: SetEncryptor with a secret shorter than 16 bytes fails, and
\* after the failed call encryption is disabled (even in the weak sense that
\* no Write or Read would encrypt or decrypt) and the bound Encryptor and
\* secret are those of the last successful binding.
C4_FailedSetDisables ==
    ShortSetEncryptor(ret)
      => /\ ret.err # Nil
         /\ ~EncryptionActive
         /\ Encryptor = bound.enc
         /\ secret = bound.key

\* C4 as amended: SetEncryptor with a secret shorter than 16 bytes fails and
\* changes nothing: the flags, the bound Encryptor and the secret are after
\* the call what they were before it (encryption stays disabled if it was
\* disabled, and stays enabled if it was enabled).
C4_FailedSetChangesNothing ==
    [][ShortSetEncryptor(ret')
         => /\ ret'.err = "secret"
            /\ flags' = flags
            /\ Encryptor' = Encryptor
            /\ secret' = secret]_vars

\* C4 witness: a failed SetEncryptor on a Transformer whose encryption is
\* enabled with a capability bound.
C4_Witness ==
    /\ ShortSetEncryptor(ret)
    /\ ret.err = "secret"
    /\ ret.cap = "shift"
    /\ IsEncryptionEnabled
    /\ Encryptor = "shift"
    /\ Len(secret) >= MinSecretLen

IOOps == {"Write", "Read", "ReadAt"}

\* the Encode and Decode calls an operation made
CryptoCalls(r) ==
    {r.calls[i] : i \in {j \in 1..Len(r.calls) : r.calls[j].fn \in {"Encode", "Decode"}}}

\* C5: SetEncryptor with a secret of at least 16 bytes succeeds, sets the
\* encryption flag and binds exactly the given capability and secret; every
\* later Write, Read and ReadAt encrypts and decrypts with the capability and
\* secret of the most recent successful SetEncryptor only.
C5_SetEncryptorBinds ==
    /\ (ret.op = "SetEncryptor" /\ Len(ret.key) >= MinSecretLen)
          => /\ ret.err = Nil
             /\ IsEncryptionEnabled
             /\ Encryptor = ret.cap
             /\ secret = ret.key
    /\ ret.op \in IOOps
          => \A c \in CryptoCalls(ret) : c.cap = bound.enc /\ c.key = bound.key

\* C5 witness: the fd holds a payload encrypted under the 16-byte secret, the
\* binding has since been replaced, and a Read decrypts with the 17-byte
\* secret bound last.
C5_Witness ==
    /\ ret.op = "Read"
    /\ lastWrite.ok
    /\ lastWrite.payload = <<1, 2>>
    /\ fdData = Encode("shift", SecretOf(MinSecretLen, 1), <<1, 2>>).data
    /\ ret.got = Len(fdData)
    /\ ret.calls = <<Call("Decode", "shift", SecretOf(MinSecretLen + 1, 2), fdData)>>
    /\ secret = SecretOf(MinSecretLen + 1, 2)

HasCall(r, fn) == \E i \in 1..Len(r.calls) : r.calls[i].fn = fn

\* a stage is due when its flag is set and its capability is bound
EncryptDue == BitSet(flags, EnabledEncryption) /\ Encryptor # Nil
CompressDue == BitSet(flags, EnabledCompression) /\ Compressor # Nil

\* C6: a transform stage runs if and only if its flag is set and its
\* capability is bound.  In Write, Read and ReadAt a stage that is reached is
\* called exactly when it is due; a stage that is not due, whether its flag
\* is set with nothing bound or its capability is bound with the flag clear,
\* leaves the data as it is and raises no error.
C6_StageGate ==
    /\ ret.op = "Write"
          => /\ HasCall(ret, "Compress") <=> CompressDue
             /\ ret.err # "compress" => (HasCall(ret, "Encode") <=> EncryptDue)
             /\ ~CompressDue => ret.err # "compress"
             /\ ~EncryptDue => ret.err # "encrypt"
             /\ (~CompressDue /\ ~EncryptDue /\ ret.err = Nil)
                  => fdData = ret.buf
             /\ (~CompressDue /\ EncryptDue)
                  => ret.calls[1] = Call("Encode", Encryptor, secret, ret.buf)
    /\ (ret.op = "Read" /\ ret.err # "read")
          => /\ HasCall(ret, "Decode") <=> EncryptDue
             /\ ret.err # "decrypt" => (HasCall(ret, "Decompress") <=> CompressDue)
             /\ ~EncryptDue => ret.err # "decrypt"
             /\ ~CompressDue => ret.err # "decompress"
             /\ (~CompressDue /\ ~EncryptDue)
                  => ret.err = Nil /\ ret.data = ret.buf
    /\ (ret.op = "ReadAt" /\ ret.err # "read")
          => /\ HasCall(ret, "Decompress") <=> CompressDue
             /\ ret.err # "decompress" => (HasCall(ret, "Decode") <=> EncryptDue)
             /\ ~EncryptDue => ret.err # "decrypt"
             /\ ~CompressDue => ret.err # "decompress"
             /\ (~CompressDue /\ ~EncryptDue)
                  => ret.err = Nil /\ ret.data = ret.buf

\* C6 witness: a Write with the encryption flag set and no Encryptor bound,
\* and with a Compressor bound and the compression flag clear: neither stage
\* runs and the payload reaches the sink unchanged.
C6_Witness ==
    /\ ret.op = "Write"
    /\ IsEncryptionEnabled /\ Encryptor = Nil
    /\ ~IsCompressionEnabled /\ Compressor = "rle"
    /\ ret.err = Nil
    /\ ret.buf = <<1, 2>>
    /\ fdData = <<1, 2>>
    /\ Len(ret.calls) = 1

DisableOps == {"DisableEncryption", "DisableCompression", "DisableAll"}

\* C7: the disable operations clear flag bits only.  The bound Compressor,
\* Encryptor and secret are always those of the latest SetCompressor and
\* successful SetEncryptor, whatever was disabled since; DisableEncryption,
\* DisableCompression and DisableAll leave their bits clear (DisableAll both);
\* and enabling a stage whose capability is bound makes it active again with
\* that capability and secret.
C7_DisableKeepsBinding ==
    /\ Compressor = bound.comp
    /\ Encryptor = bound.enc
    /\ secret = bound.key
    /\ ret.op = "DisableEncryption" => ~IsEncryptionEnabled
    /\ ret.op = "DisableCompression" => ~IsCompressionEnabled
    /\ ret.op = "DisableAll" => ~IsEncryptionEnabled /\ ~IsCompressionEnabled
    /\ (ret.op = "EnableCompression" /\ bound.comp # Nil) => CompressionActive
    /\ (ret.op = "EnableEncryption" /\ bound.enc # Nil) => EncryptionActive

\* C7 witness: EnableEncryption called with both flags clear while an
\* Encryptor and a Compressor are bound (binding sets the flags, so they were
\* disabled since): encryption is active again with the bound capability.
C7_Witness ==
    /\ ret.op = "EnableEncryption"
    /\ ret.was = 0
    /\ Encryptor = "shift"
    /\ Compressor = "rle"
    /\ secret = SecretOf(MinSecretLen, 1)
    /\ EncryptionActive

\* the flag operations as functions on the flags
FlagOps == {"EnableEncryption", "EnableCompression", "DisableEncryption", "DisableCompression", "DisableAll"}

FlagsAfter(op, f) ==
    CASE op = "EnableEncryption" -> FlagsAfterEnableEncryption(f)
      [] op = "EnableCompression" -> FlagsAfterEnableCompression(f)
      [] op = "DisableEncryption" -> FlagsAfterDisableEncryption(f)
      [] op = "DisableCompression" -> FlagsAfterDisableCompression(f)
      [] op = "DisableAll" -> FlagsAfterDisableAll(f)

AllFlags == {0, EnabledEncryption, EnabledCompression, EnabledEncryption + EnabledCompression}

\* C8: the flag state machine.  A new Transformer has both flags clear and
\* nothing bound; the operations on one flag never change the other flag
\* (nor, for the compression operations and SetCompressor, the secret); from
\* every configuration each of the four flag configurations is reached by at
\* most two enable/disable operations, all of which are always enabled, and
\* some operation leaves the configuration: none is terminal.
C8_FlagMachine ==
    /\ ret.op = "NewTransformer"
          => flags = 0 /\ Encryptor = Nil /\ Compressor = Nil /\ secret = <<>>
    /\ flags \in AllFlags
    /\ ret.op \in {"EnableEncryption", "DisableEncryption"}
          => BitSet(flags, EnabledCompression) = BitSet(ret.was, EnabledCompression)
    /\ ret.op \in {"EnableCompression", "DisableCompression", "SetCompressor"}
          => /\ BitSet(flags, EnabledEncryption) = BitSet(ret.was, EnabledEncryption)
             /\ secret = bound.key
    /\ ret.op = "EnableEncryption" => IsEncryptionEnabled
    /\ ret.op = "EnableCompression" => IsCompressionEnabled
    /\ \A g \in AllFlags :
          \E o1 \in FlagOps, o2 \in FlagOps : FlagsAfter(o2, FlagsAfter(o1, flags)) = g
    /\ \E o \in FlagOps : FlagsAfter(o, flags) # flags
    /\ ENABLED EnableEncryption /\ ENABLED EnableCompression
    /\ ENABLED DisableEncryption /\ ENABLED DisableCompression /\ ENABLED DisableAll

\* C8 witness: EnableCompression called with only encryption enabled leaves
\* both flags set.
C8_Witness ==
    /\ ret.op = "EnableCompression"
    /\ ret.was = EnabledEncryption
    /\ flags = EnabledEncryption + EnabledCompression

\* the stage an error of Write names, and the call that stage makes
StageCall(err) ==
    CASE err = "compress" -> "Compress"
      [] err = "encrypt" -> "Encode"
      [] err = "write" -> "fd.Write"

\* C16: Write aborts on the first failing stage.  If Compress fails, Encode
\* and the sink write are never invoked; if Encode fails, the sink write is
\* never invoked; a failed Write returns 0 and an error naming the failing
\* stage (compress, encrypt or write), the failing call being the last one
\* made; and it leaves the flags, the capabilities and the secret unchanged.
C16_WriteAborts ==
    [][(ret'.op = "Write" /\ ret'.err # Nil)
         => /\ ret'.err \in {"compress", "encrypt", "write"}
            /\ ret'.n = 0
            /\ ret'.calls # <<>>
            /\ ret'.calls[Len(ret'.calls)].fn = StageCall(ret'.err)
            /\ ret'.err = "compress"
                 => ~HasCall(ret', "Encode") /\ ~HasCall(ret', "fd.Write")
            /\ ret'.err = "encrypt" => ~HasCall(ret', "fd.Write")
            /\ flags' = flags
            /\ Encryptor' = Encryptor
            /\ Compressor' = Compressor
            /\ secret' = secret]_vars

\* C16 witness: a Write with both stages active whose Encode failed, after
\* Compress was called and before any sink write.
C16_Witness ==
    /\ ret.op = "Write"
    /\ ret.err = "encrypt"
    /\ CompressionActive
    /\ EncryptionActive
    /\ ret.buf = <<1, 2>>
    /\ Len(ret.calls) = 2
    /\ ret.n = 0

\* C17: a short read is an error on both read paths.  Whenever the source
\* delivers fewer bytes than the bufsize asked for, Read and ReadAt return an
\* I/O error and no data, and hand no buffer to the decrypt and decompress
\* stages.
C17_ShortReadIsError ==
    (ret.op \in {"Read", "ReadAt"} /\ ret.got < ret.req)
      => /\ ret.err = "read"
         /\ ret.data = <<>>
         /\ ret.calls = <<>>

\* C18: whenever an Encryptor is bound, the stored secret is at least 16
\* bytes long and is the one given in the SetEncryptor call that bound that
\* Encryptor; no Encode or Decode call is made with a shorter secret.
C18_SecretLongEnough ==
    /\ Encryptor # Nil
          => /\ Len(secret) >= MinSecretLen
             /\ Encryptor = bound.enc
             /\ secret = bound.key
    /\ ret.op \in IOOps
          => \A c \in CryptoCalls(ret) : Len(c.key) >= MinSecretLen
    /\ (ret.op = "SetEncryptor" /\ ret.err # Nil) => secret = bound.key
    /\ (IsEncryptionEnabled /\ Encryptor = Nil /\ ret.op \in IOOps)
          => CryptoCalls(ret) = {}

\* C18 witness: a Read that called Decode with the 17-byte secret of the
\* SetEncryptor call that bound the Encryptor.
C18_Witness ==
    /\ ret.op = "Read"
    /\ Encryptor = "shift"
    /\ secret = SecretOf(MinSecretLen + 1, 2)
    /\ HasCall(ret, "Decode")
    /\ \A c \in CryptoCalls(ret) : c.key = secret

\* C20: on success Write returns the length of the transformed bytes the
\* sink accepted, which with both stages inactive is len(data); a later Read
\* or ReadAt given that length as bufsize recovers the payload, and one
\* given another bufsize does not.
C20_WriteLength ==
    /\ (ret.op = "Write" /\ ret.err = Nil)
          => /\ ret.n = Len(WriteStages(ret.buf, "none").data)
             /\ ret.n = Len(fdData)
             /\ (~CompressionActive /\ ~EncryptionActive) => ret.n = Len(ret.buf)
    /\ (ret.op \in {"Read", "ReadAt"} /\ HoldsLastWrite /\ ret.off = 0)
          => IF ret.req = lastWrite.n
             THEN ret.got = ret.req => ret.err = Nil /\ ret.data = lastWrite.payload
             ELSE ~(ret.err = Nil /\ ret.data = lastWrite.payload)

----------------------------------------------------------------------------
(* Properties of the Segment, checked under SpecSeg. *)

\* the record length Size is meant to return: 26 + KeySize + ValueSize + 4,
\* computed in 64 bits, where it cannot wrap
ExactSize(s) == Add64(Add64(Add64(U64(HeaderSize), s.KeySize), s.ValueSize), U64(CrcSize))

\* C9: Size() is the exact record length 26 + KeySize + ValueSize + 4 for all
\* 32-bit KeySize and ValueSize, including where the 32-bit sum would wrap.
C9_SizeExact ==
    seg # NilSegment => Size(seg) = ExactSize(seg)

\* C10: a Segment from NewTombstoneSegment(key) has Tombstone = 1,
\* IsTombstone() true, KeySize = len(key), ValueSize = 0, an empty Value, zero
\* Type, ExpiredAt and CreatedAt, and Size() = 26 + len(key) + 4; a Segment
\* from NewSegment has IsTombstone() false.
C10_Tombstone ==
    /\ (segRet.op = "NewTombstoneSegment")
          => /\ seg # NilSegment
             /\ seg.Tombstone = 1
             /\ IsTombstone(seg)
             /\ seg.KeySize = segIn.key
             /\ seg.ValueSize = Zero64
             /\ seg.Value = <<>>
             /\ seg.Type = 0
             /\ seg.ExpiredAt = Zero64
             /\ seg.CreatedAt = Zero64
             /\ Size(seg) = Add64(Add64(U64(HeaderSize), segIn.key), U64(CrcSize))
    /\ (segRet.op = "NewSegment" /\ seg # NilSegment) => ~IsTombstone(seg)

\* the seconds a Segment has left at a clock reading: ExpiredAt - now exactly,
\* as a number that fits an int64
SecondsLeft(s, now) == Sub64(s.ExpiredAt, U64(now))

\* C11: TTL() at time now returns ExpiredAt - now when ExpiredAt > 0 and
\* ExpiredAt > now, a positive number of seconds, and -1 otherwise (for no
\* expiry, for an expiry in the past and for ExpiredAt = now alike).
C11_TTLValue ==
    segRet.op = "TTL"
      => IF seg.ExpiredAt # Zero64 /\ Lt64(U64(segRet.now), seg.ExpiredAt)
         THEN /\ segRet.ttl = SecondsLeft(seg, segRet.now)
              /\ ~IsNeg64(segRet.ttl)
              /\ segRet.ttl # Zero64
         ELSE segRet.ttl = Neg64(One64)

\* C12: NewSegment sets CreatedAt = now, and ExpiredAt = now + ttl when
\* ttl > 0, else ExpiredAt = 0, for every uint64 ttl: with ttl > 0,
\* ExpiredAt = CreatedAt + ttl exactly, and so ExpiredAt > CreatedAt.
C12_ExpiryIsCreatedPlusTTL ==
    (segRet.op = "NewSegment" /\ seg # NilSegment)
      => /\ seg.CreatedAt = U64(segRet.now)
         /\ IF segIn.ttl # Zero64
            THEN /\ seg.ExpiredAt = Add64(seg.CreatedAt, segIn.ttl)
                 /\ ~Carry64(seg.CreatedAt, segIn.ttl)
                 /\ Lt64(seg.CreatedAt, seg.ExpiredAt)
            ELSE seg.ExpiredAt = Zero64

\* C19: for every ExpiredAt and every clock reading, TTL() returns either
\* exactly -1 or a strictly positive number of seconds: never 0, never a
\* negative number other than -1.
C19_TTLRange ==
    segRet.op = "TTL"
      => \/ segRet.ttl = Neg64(One64)
         \/ ~IsNeg64(segRet.ttl) /\ segRet.ttl # Zero64

\* the variants toKind knows
Supported == Variants \ {"other"}

\* C13: a failed Segment construction yields no Segment.  NewSegment on a
\* value of an unknown variant returns the unsupported-type error and nil
\* without calling ToBSON or the Transformer; a transform failure returns an
\* error and nil; NewSegment returns a Segment exactly when it returns no
\* error, and never one whose Type is Unknown.
C13_FailedConstruction ==
    segRet.op = "NewSegment"
      => /\ (segRet.err # Nil) <=> (seg = NilSegment)
         /\ segIn.data.variant \notin Supported
              => /\ segRet.err = "unsupported data type"
                 /\ seg = NilSegment
                 /\ segRet.calls = <<>>
         /\ segIn.data.variant \in Supported
              => /\ segRet.err \in {Nil, "transformer encode"}
                 /\ segRet.calls = <<"ToBSON", "transformer.Encode">>
         /\ seg # NilSegment
              => /\ seg.Type # Unknown
                 /\ seg.Type = toKind(segIn.data).kind

\* C13 witness: NewSegment on a value of an unknown variant returned the
\* unsupported-type error and no Segment, and made no call.
C13_Witness ==
    /\ segRet.op = "NewSegment"
    /\ segIn.data.variant = "other"
    /\ segRet.err = "unsupported data type"
    /\ seg = NilSegment
    /\ segRet.calls = <<>>

\* C14: every Segment a constructor returns has KeySize = len(Key) and
\* ValueSize = len(Value), and the Value of a value record is the output of
\* the Transformer's write-side pipeline on the serialized bytes, so that
\* ValueSize is the transformed length.
C14_SizesMatch ==
    seg # NilSegment
      => /\ seg.KeySize = seg.Key
         /\ seg.ValueSize = U64(Len(seg.Value))
         /\ seg.Tombstone = 0
              => seg.Value = WriteStages(ToBSON(segIn.data), "none").data

\* the Kind a projection is for
KindOf(p) ==
    CASE p = "ToSet" -> Set
      [] p = "ToZSet" -> ZSet
      [] p = "ToText" -> Text
      [] p = "ToList" -> List
      [] p = "ToTables" -> Tables
      [] p = "ToBinary" -> Binary
      [] p = "ToNumber" -> Number

\* C15: a typed projection returns nothing when the Segment's Type is not
\* the projection's Kind; when it is, it returns the value whose canonical
\* bytes are the reverse pipeline's output on Value, so that the matching
\* projection of NewSegment(key, v, ttl) is present and equal to v.
C15_Projection ==
    segRet.op \in Projections
      => IF seg.Type # KindOf(segRet.op)
         THEN ~segRet.proj.present
         ELSE /\ segRet.proj.present
              /\ segRet.proj.value.bson = ReadStages(seg.Value).data
              /\ seg.Tombstone = 0 => segRet.proj.value = segIn.data

====
